---- MODULE Spec2Model ----
(***************************************************************************)
(* Model of src/src/likelihoods.c (GUSMap): the three scaled forward-      *)
(* algorithm likelihood evaluators                                         *)
(*     ll_fs_scaled_err_c, ll_fs_ss_scaled_err_c, ll_fs_up_ss_scaled_err_c *)
(* with the emission-table build, the thread-count negotiation, the        *)
(* OpenMP parallel loop over individuals and its reduction.                *)
(*                                                                         *)
(* Arithmetic.  A C double is modelled as an exact rational or one of the  *)
(* IEEE-754 special values NaN, +Inf, -Inf, with the IEEE rules for the    *)
(* special values (0/0 = NaN, x/0 = +-Inf, log(0) = -Inf, NaN absorbing,   *)
(* Inf - Inf = NaN).  Rounding and underflow of finite values are not      *)
(* modelled.  A double that holds a sum of logarithms (llval) is held in   *)
(* the log domain: the finite value log(q) is represented by the positive  *)
(* rational q, and adding two such values multiplies their arguments.      *)
(*                                                                         *)
(* Parallelism.  An OpenMP parallel for is a set of pending iterations     *)
(* from which any worker of the team may take any iteration (the schedule  *)
(* is left to the runtime), with private copies held per worker and the    *)
(* reduction combining them after the loop.  A worker's step is one        *)
(* iteration of the build loop or one marker of one individual.  The       *)
(* serial loop of ll_fs_ss_scaled_err_c is a team of one taking the        *)
(* individuals in increasing order.                                        *)
(***************************************************************************)
EXTENDS Integers, Sequences, FiniteSets, TLC

\* ------------------------------------------------------------------------
\* Bounds of the model
MaxSnps == 3
MaxInd == 2
MaxThreads == 2
MaxSnpsPar == 2
\* thread counts a caller may request
RequestedThreads == {-1, 0, 10000} \cup (1 .. MaxThreads)

\* ------------------------------------------------------------------------
\* double: exact rationals and the IEEE special values

RECURSIVE Gcd(_, _)
Gcd(a, b) == IF b = 0 THEN a ELSE Gcd(b, a % b)

Abs(x) == IF x < 0 THEN -x ELSE x

NaN == [k |-> "nan", n |-> 0, d |-> 1]
PInf == [k |-> "pinf", n |-> 0, d |-> 1]
NInf == [k |-> "ninf", n |-> 0, d |-> 1]

\* the rational n/d (d /= 0) in lowest terms with a positive denominator
Fin(n, d) ==
  LET g == Gcd(Abs(n), Abs(d))
      s == IF d < 0 THEN -1 ELSE 1
  IN  [k |-> "fin", n |-> s * (n \div g), d |-> s * (d \div g)]

Zero == Fin(0, 1)
One == Fin(1, 1)
Quarter == Fin(1, 4)

IsZero(x) == x.k = "fin" /\ x.n = 0
Sign(x) ==
  CASE x.k = "pinf" -> 1
    [] x.k = "ninf" -> -1
    [] x.k = "fin" -> (IF x.n > 0 THEN 1 ELSE IF x.n < 0 THEN -1 ELSE 0)
    [] OTHER -> 0

\* a + b
Add(a, b) ==
  CASE a.k = "nan" \/ b.k = "nan" -> NaN
    [] a.k = "fin" /\ b.k = "fin" ->
         LET g == Gcd(a.d, b.d)
         IN  Fin(a.n * (b.d \div g) + b.n * (a.d \div g), (a.d \div g) * b.d)
    [] a.k = "fin" -> b
    [] b.k = "fin" -> a
    [] a.k = b.k -> a
    [] OTHER -> NaN

\* a * b
Mul(a, b) ==
  CASE a.k = "nan" \/ b.k = "nan" -> NaN
    [] a.k = "fin" /\ b.k = "fin" ->
         LET g1 == Gcd(Abs(a.n), b.d)
             g2 == Gcd(Abs(b.n), a.d)
         IN  Fin((a.n \div g1) * (b.n \div g2), (a.d \div g2) * (b.d \div g1))
    [] Sign(a) * Sign(b) = 0 -> NaN
    [] Sign(a) * Sign(b) > 0 -> PInf
    [] OTHER -> NInf

\* a / b
Div(a, b) ==
  CASE a.k = "nan" \/ b.k = "nan" -> NaN
    [] a.k = "fin" /\ b.k = "fin" ->
         IF b.n = 0
           THEN (IF a.n = 0 THEN NaN ELSE IF a.n > 0 THEN PInf ELSE NInf)
           ELSE Mul(a, Fin(b.d, b.n))
    [] a.k = "fin" -> Zero
    [] b.k = "fin" -> (IF Sign(a) * (IF b.n < 0 THEN -1 ELSE 1) > 0 THEN PInf ELSE NInf)
    [] OTHER -> NaN

\* 1.0 - a
OneMinus(a) == Add(One, Mul(Fin(-1, 1), a))

\* pow(x, n) for an integer exponent n >= 0; pow(x, 0) = 1 for every x
RECURSIVE Pow(_, _)
Pow(x, n) == IF n = 0 THEN One ELSE Mul(x, Pow(x, n - 1))

\* log(x), in the log domain: log(q) for q > 0 is held as q
Log(x) ==
  CASE x.k = "nan" -> NaN
    [] x.k = "pinf" -> PInf
    [] x.k = "ninf" -> NaN
    [] x.n = 0 -> NInf
    [] x.n < 0 -> NaN
    [] OTHER -> x

\* the log-domain value 0.0 = log(1)
LogZero == One

\* a + b for two log-domain values
LogAdd(a, b) ==
  CASE a.k = "nan" \/ b.k = "nan" -> NaN
    [] a.k = "fin" /\ b.k = "fin" -> Mul(a, b)
    [] a.k = "fin" -> b
    [] b.k = "fin" -> a
    [] a.k = b.k -> a
    [] OTHER -> NaN

\* -1 * a for a log-domain value
LogNeg(a) ==
  CASE a.k = "nan" -> NaN
    [] a.k = "pinf" -> NInf
    [] a.k = "ninf" -> PInf
    [] OTHER -> Fin(a.d, a.n)


\* ------------------------------------------------------------------------
\* Hidden states, transition model and emission lookup (probFun.h)

NStates == 4
States == 0 .. (NStates - 1)

\* the paternal-origin and maternal-origin bits of a hidden state
PatBit(s) == s \div 2
MatBit(s) == s % 2

\* one parental meiosis: the bit flips with probability rv, stays with 1 - rv
Flip(b1, b2, rv) == IF b1 = b2 THEN OneMinus(rv) ELSE rv

\* Tmat(s1, s2, rval): both bits flip independently with the shared rval
Tmat(s1, s2, rval) ==
  Mul(Flip(PatBit(s1), PatBit(s2), rval), Flip(MatBit(s1), MatBit(s2), rval))

\* Tmat_ss(s1, s2, r_f, r_m): paternal bit governed by r_f, maternal by r_m
Tmat_ss(s1, s2, r_f, r_m) ==
  Mul(Flip(PatBit(s1), PatBit(s2), r_f), Flip(MatBit(s1), MatBit(s2), r_m))

\* emissionClass(code, state) for phased data (OPGP code), hidden states 1..4:
\* 1 = both parents heterozygous, 2 = paternal segregating, 3 = uninformative
EmissionClass ==
  << << "bb", "ab", "ab", "aa" >>,
     << "ab", "ab", "aa", "aa" >>,
     << "aa", "aa", "aa", "aa" >> >>

\* emissionClass_unphased(config, state):
\* 1 = informative, 2 = paternal segregating, 3 = maternal segregating
EmissionClassUp ==
  << << "bb", "ab", "ab", "aa" >>,
     << "ab", "ab", "aa", "aa" >>,
     << "ab", "aa", "ab", "aa" >> >>

PickK(class, kaa, kab, kbb) ==
  CASE class = "aa" -> kaa
    [] class = "ab" -> kab
    [] OTHER -> kbb

Qentry(OPGP, kaa, kab, kbb, elem) == PickK(EmissionClass[OPGP][elem], kaa, kab, kbb)

Qentry_up(config, kaa, kab, kbb, elem) == PickK(EmissionClassUp[config][elem], kaa, kab, kbb)

\* ------------------------------------------------------------------------
\* Emission model

\* the exponents of Kaa exchanged
EmissionKaaSwapped(bc, e, nref, nalt) == Mul(Mul(bc, Pow(OneMinus(e), nalt)), Pow(e, nref))

\* pbcoef_mat[index] * pow(1.0 - ep, ref) * pow(ep, alt)
EmissionKaa(bc, e, nref, nalt) == Mul(Mul(bc, Pow(OneMinus(e), nref)), Pow(e, nalt))

\* pbcoef_mat[index] * pow(1.0 - ep, alt) * pow(ep, ref)
EmissionKbb(bc, e, nref, nalt) == Mul(Mul(bc, Pow(OneMinus(e), nalt)), Pow(e, nref))

\* ------------------------------------------------------------------------
\* State

VARIABLES
  args,        \* the call's arguments (read-only): fn, r, ep, ref, alt,
               \*   bcoef_mat, Kab, Kaa, Kbb, code, nInd, nSnps, nThreads
  maxThreads,  \* omp_get_max_threads()
  pc,          \* "start", "build", "forward", "reduce", "done"
  nThreads_c,  \* negotiated thread count
  pKaa, pKbb,  \* emission tables, flat index ind + nInd*snp
  bTodo,       \* iterations of the build loop not yet executed
  nWrites,     \* per cell: number of writes so far
  fTodo,       \* iterations (individuals) of the likelihood loop not yet started
  priv,        \* per private slot: ind, snp, alphaTilde, llval
  llval,       \* the shared reduction variable
  joined,      \* workers whose private llval has been combined
  pll,         \* the returned scalar
  contrib,     \* per individual: the sum of the log terms it has added
  hist,        \* per individual: the markers processed, in order
  wts,         \* per individual: the scaling constants (sum, w_new), in order
  nLogTerms,   \* number of log terms added by the whole call
  rReads       \* reads of r so far: <<index, snp>>

vars == << args, maxThreads, pc, nThreads_c, pKaa, pKbb, bTodo, nWrites, fTodo,
           priv, llval, joined, pll, contrib, hist, wts, nLogTerms, rReads >>

Uninit == [k |-> "uninit", n |-> 0, d |-> 1]

Size == args.nSnps * args.nInd
Cells == 0 .. (Size - 1)
Inds == 0 .. (args.nInd - 1)
Snps == 0 .. (args.nSnps - 1)
Workers == 1 .. nThreads_c

Min(S) == CHOOSE m \in S : \A o \in S : m <= o

\* ------------------------------------------------------------------------
\* Inputs

\* one (individual, marker) observation with the marker's error rate and code;
\* bcoef = C(ref + alt, ref) and Kab = bcoef * 0.5^(ref + alt)
Kinds ==
  << [ref |-> 0, alt |-> 0, bcoef |-> One, Kab |-> One, ep |-> Fin(1, 4), code |-> 1],
     [ref |-> 1, alt |-> 0, bcoef |-> One, Kab |-> Fin(1, 2), ep |-> Zero, code |-> 1],
     [ref |-> 0, alt |-> 1, bcoef |-> One, Kab |-> Fin(1, 2), ep |-> Zero, code |-> 3],
     [ref |-> 1, alt |-> 1, bcoef |-> Fin(2, 1), Kab |-> Fin(1, 2), ep |-> Fin(1, 4), code |-> 2],
     [ref |-> 0, alt |-> 0, bcoef |-> One, Kab |-> One, ep |-> One, code |-> 2] >>

\* one marker gap: the shared r (in [0, 1/2]) or the pair (paternal, maternal)
GapKinds ==
  << [r |-> Zero, pat |-> Zero, mat |-> One],
     [r |-> Fin(1, 2), pat |-> Fin(1, 2), mat |-> Fin(1, 4)] >>

\* the r vector: nSnps-1 values, or the paternal values followed by the maternal
RVec(fn, n, gk) ==
  IF fn = "fs"
    THEN [i \in 0 .. (n - 2) |-> GapKinds[gk[i]].r]
    ELSE [i \in 0 .. (2 * (n - 1) - 1) |->
            IF i < n - 1 THEN GapKinds[gk[i]].pat ELSE GapKinds[gk[i - (n - 1)]].mat]

\* the argument record of one call; ck: cell -> kind, mk: marker -> kind,
\* gk: gap -> gap kind.  Kaa and Kbb are arguments of ll_fs_ss_scaled_err_c only.
MkArgs(fn, ni, n, ck, mk, gk, nt) ==
  [ fn |-> fn, nInd |-> ni, nSnps |-> n, nThreads |-> nt,
    r |-> RVec(fn, n, gk),
    ep |-> [s \in 0 .. (n - 1) |-> Kinds[mk[s]].ep],
    code |-> [s \in 0 .. (n - 1) |-> Kinds[mk[s]].code],
    ref |-> [i \in 0 .. (n * ni - 1) |-> Kinds[ck[i]].ref],
    alt |-> [i \in 0 .. (n * ni - 1) |-> Kinds[ck[i]].alt],
    bcoef_mat |-> [i \in 0 .. (n * ni - 1) |-> Kinds[ck[i]].bcoef],
    Kab |-> [i \in 0 .. (n * ni - 1) |-> Kinds[ck[i]].Kab],
    Kaa |-> IF fn = "ss"
              THEN [i \in 0 .. (n * ni - 1) |->
                      EmissionKaa(Kinds[ck[i]].bcoef, Kinds[mk[i \div ni]].ep,
                                  Kinds[ck[i]].ref, Kinds[ck[i]].alt)]
              ELSE << >>,
    Kbb |-> IF fn = "ss"
              THEN [i \in 0 .. (n * ni - 1) |->
                      EmissionKbb(Kinds[ck[i]].bcoef, Kinds[mk[i \div ni]].ep,
                                  Kinds[ck[i]].ref, Kinds[ck[i]].alt)]
              ELSE << >> ]

Fns == {"fs", "ss", "up"}

InitRest ==
  /\ pc = "start"
  /\ nThreads_c = 0
  /\ pKaa = << >>
  /\ pKbb = << >>
  /\ bTodo = {}
  /\ nWrites = << >>
  /\ fTodo = {}
  /\ priv = << >>
  /\ llval = LogZero
  /\ joined = {}
  /\ pll = Uninit
  /\ contrib = [i \in Inds |-> LogZero]
  /\ hist = [i \in Inds |-> << >>]
  /\ wts = [i \in Inds |-> << >>]
  /\ nLogTerms = 0
  /\ rReads = {}

\* one individual, one hardware thread, every combination of marker kinds
InitSeq ==
  /\ maxThreads = 1
  /\ \E fn \in Fns, n \in 1 .. MaxSnps :
       \E mk \in [0 .. (n - 1) -> 1 .. Len(Kinds)],
          gk \in [0 .. (n - 2) -> 1 .. Len(GapKinds)] :
         args = MkArgs(fn, 1, n, mk, mk, gk, 1)
  /\ InitRest

\* data sets of the parallel runs
Seeds == {0, 2}

\* several individuals and threads; cell (ind, snp) has kind seed + ind + snp,
\* marker snp has kind seed + snp, every gap has the kind the seed selects
InitPar ==
  /\ maxThreads \in 1 .. MaxThreads
  /\ \E fn \in Fns, ni \in 1 .. MaxInd, n \in 1 .. MaxSnpsPar,
        seed \in Seeds, nt \in RequestedThreads :
       /\ fn = "ss" => nt = 1
       /\ args = MkArgs(fn, ni, n,
                        [i \in 0 .. (n * ni - 1) |->
                           ((seed + (i % ni) + (i \div ni)) % Len(Kinds)) + 1],
                        [s \in 0 .. (n - 1) |-> ((seed + s) % Len(Kinds)) + 1],
                        [g \in 0 .. (n - 2) |-> ((seed \div 2) % Len(GapKinds)) + 1], nt)
  /\ InitRest

\* ------------------------------------------------------------------------
\* Thread-count negotiation

\* the upper clamp left out
NegotiateNoClamp(n, m) == IF n <= 0 THEN m ELSE n

NegotiateThreads(n, m) == IF n <= 0 THEN m ELSE IF n > m THEN m ELSE n

\* ------------------------------------------------------------------------
\* Private storage of the parallel region

\* the slot holding worker w's copies of ind, snp, alphaTilde, sum, w_new and
\* of the reduction variable
\* the private clause left out: one copy shared by all workers
SlotShared(w) == 1

Slot(w) == w

IdleSlot ==
  [ind |-> -1, snp |-> 0, alphaTilde |-> [s \in States |-> Uninit], llval |-> LogZero]

\* entry into the parallel likelihood loop
EnterForward(nt) ==
  /\ priv' = [s \in {Slot(w) : w \in 1 .. nt} |-> IdleSlot]
  /\ fTodo' = Inds
  /\ pc' = "forward"

\* ------------------------------------------------------------------------
\* Emission-table build

\* flat index of cell (ind, snp), as the likelihood loop reads it
Index(ind, snp) == ind + args.nInd * snp

\* the table laid out individual-major
FsBuildIndexRowMajor(ind, snp) == snp + ind * args.nSnps

\* index = ind + snp*nInd_c of the fs build loop
FsBuildIndex(ind, snp) == ind + snp * args.nInd

\* the cell written by iteration t of the build loop and the error rate used:
\* fs runs ind outermost and snp innermost and uses pep[snp],
\* up runs over the flat index and uses REAL(ep)[0]
BuildIter(t) ==
  IF args.fn = "fs"
    THEN [index |-> FsBuildIndex(t \div args.nSnps, t % args.nSnps),
          ep |-> args.ep[t % args.nSnps]]
    ELSE [index |-> t, ep |-> args.ep[0]]

WriteCell(it) ==
  /\ pKaa' = [pKaa EXCEPT ![it.index] =
                EmissionKaa(args.bcoef_mat[it.index], it.ep, args.ref[it.index],
                            args.alt[it.index])]
  /\ pKbb' = [pKbb EXCEPT ![it.index] =
                EmissionKbb(args.bcoef_mat[it.index], it.ep, args.ref[it.index],
                            args.alt[it.index])]
  /\ nWrites' = [nWrites EXCEPT ![it.index] = @ + 1]

\* the build loop is complete and its implicit barrier passed
BuildDone == bTodo = {}

Negotiate ==
  /\ pc = "start"
  /\ args.fn # "ss"
  /\ nThreads_c' = NegotiateThreads(args.nThreads, maxThreads)
  /\ pKaa' = [i \in Cells |-> Uninit]
  /\ pKbb' = [i \in Cells |-> Uninit]
  /\ nWrites' = [i \in Cells |-> 0]
  /\ bTodo' = Cells
  /\ pc' = "build"
  /\ UNCHANGED << args, maxThreads, fTodo, priv, llval, joined, pll, contrib, hist, wts,
                  nLogTerms, rReads >>

\* ll_fs_ss_scaled_err_c: the tables are arguments, the loop is serial
LoadSS ==
  /\ pc = "start"
  /\ args.fn = "ss"
  /\ nThreads_c' = 1
  /\ pKaa' = args.Kaa
  /\ pKbb' = args.Kbb
  /\ nWrites' = [i \in Cells |-> 0]
  /\ EnterForward(1)
  /\ UNCHANGED << args, maxThreads, bTodo, llval, joined, pll, contrib, hist, wts,
                  nLogTerms, rReads >>

\* ll_fs_scaled_err_c: one iteration of the serial nested loop
BuildSerial ==
  /\ pc = "build"
  /\ args.fn = "fs"
  /\ bTodo # {}
  /\ WriteCell(BuildIter(Min(bTodo)))
  /\ bTodo' = bTodo \ {Min(bTodo)}
  /\ UNCHANGED << args, maxThreads, pc, nThreads_c, fTodo, priv, llval, joined, pll,
                  contrib, hist, wts, nLogTerms, rReads >>

\* ll_fs_up_ss_scaled_err_c: worker w runs one iteration of the parallel loop
BuildParallel(w) ==
  /\ pc = "build"
  /\ args.fn = "up"
  /\ w \in Workers
  /\ \E t \in bTodo :
       /\ WriteCell(BuildIter(t))
       /\ bTodo' = bTodo \ {t}
  /\ UNCHANGED << args, maxThreads, pc, nThreads_c, fTodo, priv, llval, joined, pll,
                  contrib, hist, wts, nLogTerms, rReads >>

StartForward ==
  /\ pc = "build"
  /\ BuildDone
  /\ EnterForward(nThreads_c)
  /\ UNCHANGED << args, maxThreads, nThreads_c, pKaa, pKbb, bTodo, nWrites, llval,
                  joined, pll, contrib, hist, wts, nLogTerms, rReads >>

\* ------------------------------------------------------------------------
\* Scaled forward recursion

\* sum = 0; sum = sum + v[0]; ... ; sum = sum + v[3]
Sum4(v) == Add(Add(Add(Add(Zero, v[0]), v[1]), v[2]), v[3])

\* Qentry / Qentry_up of marker snp for individual ind and state s (0-based)
Emission(ind, snp, s) ==
  IF args.fn = "up"
    THEN Qentry_up(args.code[snp], pKaa[Index(ind, snp)], args.Kab[Index(ind, snp)],
                   pKbb[Index(ind, snp)], s + 1)
    ELSE Qentry(args.code[snp], pKaa[Index(ind, snp)], args.Kab[Index(ind, snp)],
                pKbb[Index(ind, snp)], s + 1)

\* indices of r read by the step into marker snp
PatIdx(snp) == snp - 1
MatIdxOffByOne(snp) == snp - 1 + args.nSnps
MatIdx(snp) == snp - 1 + args.nSnps - 1
RIdx(snp) == IF args.fn = "fs" THEN {PatIdx(snp)} ELSE {PatIdx(snp), MatIdx(snp)}

\* pr[i]; an index outside r is never read by the program
RAt(i) == IF i \in DOMAIN args.r THEN args.r[i] ELSE Uninit

Transition(s1, s2, snp) ==
  IF args.fn = "fs"
    THEN Tmat(s1, s2, RAt(PatIdx(snp)))
    ELSE Tmat_ss(s1, s2, RAt(PatIdx(snp)), RAt(MatIdx(snp)))

\* a double[4] array with elements a0 .. a3
Array4(a0, a1, a2, a3) == (0 :> a0) @@ (1 :> a1) @@ (2 :> a2) @@ (3 :> a3)

\* forward probabilities at the first marker
InitDot(ind) ==
  LET dot(s1) == Mul(Quarter, Emission(ind, 0, s1))
  IN  Array4(dot(0), dot(1), dot(2), dot(3))

\* forward probabilities at marker snp from the rescaled vector at marker snp-1
NextDot(at, ind, snp) ==
  LET dot(s2) ==
        LET term(s1) == Mul(Transition(s1, s2, snp), at[s1])
        IN  Mul(Emission(ind, snp, s2), Sum4(Array4(term(0), term(1), term(2), term(3))))
  IN  Array4(dot(0), dot(1), dot(2), dot(3))

\* alphaTilde[s] = alphaDot[s] / w
Rescale(dot, w) ==
  LET scaled(s) == Div(dot[s], w)
  IN  Array4(scaled(0), scaled(1), scaled(2), scaled(3))

\* the inner loop started at the first marker again
FirstLoopSnpZero == 1 - 1

\* first marker of the inner loop over the remaining markers
FirstLoopSnp == 1

\* the iterations a worker may be given: any pending one, in order when serial
Takeable == IF args.fn = "ss" THEN {Min(fTodo)} ELSE fTodo

\* worker w starts individual ind: initialization at the first marker
ForwardInit(w) ==
  /\ pc = "forward"
  /\ w \in Workers
  /\ priv[Slot(w)].ind = -1
  /\ fTodo # {}
  /\ \E ind \in Takeable :
       LET dot == InitDot(ind)
           sum == Sum4(dot)
       IN  /\ priv' = [priv EXCEPT ![Slot(w)] =
                         [ind |-> IF FirstLoopSnp < args.nSnps THEN ind ELSE -1,
                          snp |-> FirstLoopSnp,
                          alphaTilde |-> Rescale(dot, sum),
                          llval |-> LogAdd(@.llval, Log(sum))]]
           /\ fTodo' = fTodo \ {ind}
           /\ contrib' = [contrib EXCEPT ![ind] = LogAdd(@, Log(sum))]
           /\ hist' = [hist EXCEPT ![ind] = Append(@, 0)]
           /\ wts' = [wts EXCEPT ![ind] = Append(@, sum)]
  /\ nLogTerms' = nLogTerms + 1
  /\ UNCHANGED << args, maxThreads, pc, nThreads_c, pKaa, pKbb, bTodo, nWrites, llval,
                  joined, pll, rReads >>

\* worker w runs one iteration of the loop over the remaining markers
ForwardStep(w) ==
  /\ pc = "forward"
  /\ w \in Workers
  /\ priv[Slot(w)].ind # -1
  /\ LET me == priv[Slot(w)]
         dot == NextDot(me.alphaTilde, me.ind, me.snp)
         w_new == Sum4(dot)
     IN  /\ priv' = [priv EXCEPT ![Slot(w)] =
                       [ind |-> IF me.snp + 1 < args.nSnps THEN me.ind ELSE -1,
                        snp |-> me.snp + 1,
                        alphaTilde |-> Rescale(dot, w_new),
                        llval |-> LogAdd(me.llval, Log(w_new))]]
         /\ contrib' = [contrib EXCEPT ![me.ind] = LogAdd(@, Log(w_new))]
         /\ hist' = [hist EXCEPT ![me.ind] = Append(@, me.snp)]
         /\ wts' = [wts EXCEPT ![me.ind] = Append(@, w_new)]
         /\ rReads' = rReads \cup {<< i, me.snp >> : i \in RIdx(me.snp)}
  /\ nLogTerms' = nLogTerms + 1
  /\ UNCHANGED << args, maxThreads, pc, nThreads_c, pKaa, pKbb, bTodo, nWrites, fTodo,
                  llval, joined, pll >>

\* every iteration has run: the workers meet at the end of the loop
EndForward ==
  /\ pc = "forward"
  /\ fTodo = {}
  /\ \A w \in Workers : priv[Slot(w)].ind = -1
  /\ pc' = "reduce"
  /\ UNCHANGED << args, maxThreads, nThreads_c, pKaa, pKbb, bTodo, nWrites, fTodo, priv,
                  llval, joined, pll, contrib, hist, wts, nLogTerms, rReads >>

\* reduction(+:llval): worker w's private sum is added to the shared llval
Combine(w) ==
  /\ pc = "reduce"
  /\ w \in Workers \ joined
  /\ llval' = LogAdd(llval, priv[Slot(w)].llval)
  /\ joined' = joined \cup {w}
  /\ UNCHANGED << args, maxThreads, pc, nThreads_c, pKaa, pKbb, bTodo, nWrites, fTodo,
                  priv, pll, contrib, hist, wts, nLogTerms, rReads >>

\* pll[0] = -1*llval
Return ==
  /\ pc = "reduce"
  /\ joined = Workers
  /\ pll' = LogNeg(llval)
  /\ pc' = "done"
  /\ UNCHANGED << args, maxThreads, nThreads_c, pKaa, pKbb, bTodo, nWrites, fTodo, priv,
                  llval, joined, contrib, hist, wts, nLogTerms, rReads >>

Next ==
  \/ Negotiate
  \/ LoadSS
  \/ BuildSerial
  \/ \E w \in 1 .. MaxThreads : BuildParallel(w)
  \/ StartForward
  \/ \E w \in 1 .. MaxThreads : ForwardInit(w)
  \/ \E w \in 1 .. MaxThreads : ForwardStep(w)
  \/ EndForward
  \/ \E w \in 1 .. MaxThreads : Combine(w)
  \/ Return

\* the parallel evaluators with several individuals and threads
Spec == InitPar /\ [][Next]_vars

\* one individual on one thread, all combinations of marker kinds
SpecSeq == InitSeq /\ [][Next]_vars

\* ------------------------------------------------------------------------
\* Reference computations used by the properties

\* forward recursion with no rescaling: prior 0.25, same emissions and transitions
RECURSIVE UnscaledAlpha(_, _)
UnscaledAlpha(ind, snp) ==
  IF snp = 0 THEN InitDot(ind) ELSE NextDot(UnscaledAlpha(ind, snp - 1), ind, snp)

\* individual ind evaluated alone, markers 0 .. snp in order:
\* the rescaled vector, the sum of the log terms and the scaling constants
RECURSIVE AloneRun(_, _)
AloneRun(ind, snp) ==
  IF snp = 0
    THEN LET dot == InitDot(ind)
         IN  [at |-> Rescale(dot, Sum4(dot)), ll |-> Log(Sum4(dot)), w |-> << Sum4(dot) >>]
    ELSE LET p == AloneRun(ind, snp - 1)
             dot == NextDot(p.at, ind, snp)
         IN  [at |-> Rescale(dot, Sum4(dot)), ll |-> LogAdd(p.ll, Log(Sum4(dot))),
              w |-> Append(p.w, Sum4(dot))]

\* sum of the contributions of individuals 0 .. n-1, each evaluated alone
RECURSIVE SumAlone(_)
SumAlone(n) ==
  IF n = 0 THEN LogZero
           ELSE LogAdd(SumAlone(n - 1), AloneRun(n - 1, args.nSnps - 1).ll)

\* sum over individuals 0 .. n-1 of the log of the unscaled forward total
RECURSIVE SumLogUnscaled(_)
SumLogUnscaled(n) ==
  IF n = 0 THEN LogZero
           ELSE LogAdd(SumLogUnscaled(n - 1),
                       Log(Sum4(UnscaledAlpha(n - 1, args.nSnps - 1))))

\* product of the first n scaling constants of individual ind
RECURSIVE ProdWts(_, _)
ProdWts(ind, n) == IF n = 0 THEN One ELSE Mul(ProdWts(ind, n - 1), wts[ind][n])

Finished(ind) == Len(hist[ind]) = args.nSnps
TablesBuilt == pc \in {"forward", "reduce", "done"}
Parallel == args.fn # "ss"

\* ------------------------------------------------------------------------
\* Properties

\* C1: after the rescaling assignment of any marker step, alphaTilde[0..3]
\* sums to 1, for every worker, individual and marker.
C1_AlphaTildeSumsToOne ==
  \A s \in DOMAIN priv : priv[s].snp > 0 => Sum4(priv[s].alphaTilde) = One

\* C2: for a finished individual the product of its scaling constants equals
\* the total of the unscaled forward vector at the last marker, its accumulated
\* log sum is the log of that total, and the returned value is the negated sum
\* of the individuals' accumulated logs.
C2_ScaledForwardIdentity ==
  /\ \A ind \in Inds :
       Finished(ind) =>
         /\ ProdWts(ind, args.nSnps) = Sum4(UnscaledAlpha(ind, args.nSnps - 1))
         /\ contrib[ind] = Log(Sum4(UnscaledAlpha(ind, args.nSnps - 1)))
  /\ pc = "done" => pll = LogNeg(SumLogUnscaled(args.nInd))

C4_ThreadNegotiation ==
  (Parallel /\ pc # "start") =>
    /\ args.nThreads <= 0 => nThreads_c = maxThreads
    /\ args.nThreads > maxThreads => nThreads_c = maxThreads
    /\ (1 <= args.nThreads /\ args.nThreads <= maxThreads) => nThreads_c = args.nThreads
    /\ nThreads_c \in 1 .. maxThreads
    /\ TablesBuilt => Cardinality(DOMAIN priv) = nThreads_c

C4_Witness ==
  /\ Parallel
  /\ pc = "forward"
  /\ args.nThreads = 10000
  /\ maxThreads = 2
  /\ nThreads_c = 2

\* C5: if the weight of some marker step of a finished individual is exactly
\* 0, the individual's contribution is -Inf, wherever that step lies, and the
\* call returns a non-finite scalar.
C5_ZeroWeightGivesNegInf ==
  /\ \A ind \in Inds :
       (Finished(ind) /\ \E j \in 1 .. Len(wts[ind]) : IsZero(wts[ind][j]))
         => contrib[ind] = NInf
  /\ (pc = "done" /\ \E ind \in Inds : \E j \in 1 .. Len(wts[ind]) : IsZero(wts[ind][j]))
       => pll.k # "fin"

\* C6: in the two evaluators that build the tables, every cell holds
\* Kaa = bcoef * (1-ep)^ref * ep^alt and Kbb = bcoef * (1-ep)^alt * ep^ref, with
\* ep the marker's error rate in fs and the shared error rate in up; a cell
\* with ref = alt = 0 holds Kaa = Kbb = bcoef.
C6_EmissionModel ==
  (Parallel /\ TablesBuilt) =>
    \A ind \in Inds, snp \in Snps :
      LET i == ind + args.nInd * snp
          e == IF args.fn = "fs" THEN args.ep[snp] ELSE args.ep[0]
          q == OneMinus(e)
      IN  /\ pKaa[i] = Mul(args.bcoef_mat[i], Mul(Pow(q, args.ref[i]), Pow(e, args.alt[i])))
          /\ pKbb[i] = Mul(args.bcoef_mat[i], Mul(Pow(q, args.alt[i]), Pow(e, args.ref[i])))
          /\ (args.ref[i] = 0 /\ args.alt[i] = 0) =>
               (pKaa[i] = args.bcoef_mat[i] /\ pKbb[i] = args.bcoef_mat[i])

C6_Witness ==
  /\ args.fn = "up"
  /\ TablesBuilt
  /\ args.nSnps = 3
  /\ args.ep[0] = Zero
  /\ args.ref[1] = 0
  /\ args.alt[1] = 0
  /\ pKaa[1] = args.bcoef_mat[1]
  /\ args.ref[2] = 1
  /\ args.alt[2] = 1
  /\ pKbb[2] = Zero

\* the state part of C7
C7_TableState ==
  Parallel =>
    /\ pc = "build" => \A i \in Cells : nWrites[i] = (IF pKaa[i] = Uninit THEN 0 ELSE 1)
    /\ TablesBuilt =>
         \A ind \in Inds, snp \in Snps :
           /\ Index(ind, snp) \in DOMAIN pKaa
           /\ Index(ind, snp) \in DOMAIN pKbb
           /\ nWrites[Index(ind, snp)] = 1
           /\ pKaa[Index(ind, snp)] =
                EmissionKaa(args.bcoef_mat[ind + args.nInd * snp],
                            IF args.fn = "fs" THEN args.ep[snp] ELSE args.ep[0],
                            args.ref[ind + args.nInd * snp], args.alt[ind + args.nInd * snp])
           /\ pKbb[Index(ind, snp)] =
                EmissionKbb(args.bcoef_mat[ind + args.nInd * snp],
                            IF args.fn = "fs" THEN args.ep[snp] ELSE args.ep[0],
                            args.ref[ind + args.nInd * snp], args.alt[ind + args.nInd * snp])

\* the step part of C7
C7_TableStep ==
  /\ TablesBuilt => (pKaa' = pKaa /\ pKbb' = pKbb /\ nWrites' = nWrites)
  /\ (Parallel /\ pc = "build" /\ pc' = "build") =>
       \E i \in Cells :
         /\ nWrites[i] = 0
         /\ nWrites' = [nWrites EXCEPT ![i] = 1]
         /\ \A j \in Cells \ {i} : pKaa'[j] = pKaa[j] /\ pKbb'[j] = pKbb[j]

\* C7: every cell of the Kaa and Kbb buffers is written exactly once, a build
\* step writes one cell that no step has written, all cells are written before
\* the likelihood loop starts and none is written afterwards; the cell read
\* for (ind, snp) lies in the buffer and was built from that pair's inputs.
C7_EmissionTableBuild == [](C7_TableState) /\ [][C7_TableStep]_vars

C7_Witness ==
  /\ args.fn = "up"
  /\ pc = "forward"
  /\ nThreads_c = 2
  /\ args.nInd = 2
  /\ args.nSnps = 2
  /\ \A i \in Cells : nWrites[i] = 1
  /\ \E w \in Workers : priv[Slot(w)].snp > 0

\* the step part of C8
C8_Step ==
  /\ args' = args
  /\ maxThreads' = maxThreads
  /\ (pc = "forward" /\ pc' = "forward") =>
       /\ llval' = llval
       /\ pKaa' = pKaa
       /\ pKbb' = pKbb
       /\ \A w \in Workers :
            (ForwardInit(w) \/ ForwardStep(w)) =>
              \A v \in Workers \ {w} : priv'[Slot(v)] = priv[Slot(v)]
  /\ pc = "reduce" => priv' = priv

\* C8: a step of one worker of the likelihood loop changes only that worker's
\* private copies (never another worker's, never the shared llval or the
\* tables), no two workers hold the same private storage, and the arguments
\* are never changed.
C8_RaceFreedomAndFrame ==
  /\ [](\A w \in Workers, v \in Workers : (TablesBuilt /\ w # v) => Slot(w) # Slot(v))
  /\ [][C8_Step]_vars

C8_Witness ==
  /\ pc = "forward"
  /\ nThreads_c = 2
  /\ priv[Slot(1)].ind = 0
  /\ priv[Slot(2)].ind = 1
  /\ priv[Slot(1)].alphaTilde # priv[Slot(2)].alphaTilde

\* C9: an individual's markers are processed in increasing order 0, 1, ...,
\* each once, by one worker at a time; the weights are those of the recursion
\* that starts from the prior 0.25 and feeds each step the vector rescaled at
\* the previous marker with the previous gap's recombination fraction; each
\* marker adds one log term: nSnps per individual, nInd * nSnps per call.
C9_MarkerOrder ==
  /\ \A ind \in Inds :
       /\ Len(hist[ind]) <= args.nSnps
       /\ \A j \in 1 .. Len(hist[ind]) : hist[ind][j] = j - 1
       /\ Len(wts[ind]) = Len(hist[ind])
       /\ pc = "done" => wts[ind] = AloneRun(ind, args.nSnps - 1).w
       /\ (TablesBuilt /\ Len(wts[ind]) >= 1) =>
            wts[ind][1] =
              LET em(s) == Emission(ind, 0, s)
              IN  Mul(Quarter, Sum4(Array4(em(0), em(1), em(2), em(3))))
  /\ \A w \in Workers, v \in Workers :
       (pc = "forward" /\ w # v /\ priv[Slot(w)].ind # -1)
         => priv[Slot(w)].ind # priv[Slot(v)].ind
  /\ \A w \in Workers :
       (pc = "forward" /\ priv[Slot(w)].ind # -1) =>
         /\ priv[Slot(w)].snp = Len(hist[priv[Slot(w)].ind])
         /\ priv[Slot(w)].ind \notin fTodo
  /\ nLogTerms <= args.nInd * args.nSnps
  /\ pc \in {"reduce", "done"} =>
       /\ \A ind \in Inds : Finished(ind)
       /\ nLogTerms = args.nInd * args.nSnps

C9_Witness ==
  /\ pc = "done"
  /\ args.nInd = 2
  /\ args.nSnps = MaxSnpsPar
  /\ nThreads_c = 2
  /\ \A ind \in Inds : Len(hist[ind]) = MaxSnpsPar
  /\ nLogTerms = 2 * MaxSnpsPar

\* C10: in the sex-specific evaluators the step into marker snp reads r at
\* snp-1 (paternal) and snp-1 + (nSnps-1) (maternal); r has 2*(nSnps-1)
\* elements, every index read lies inside it, paternal and maternal indices
\* are disjoint, and at the end every element has been read by exactly one gap.
C10_SexSpecificIndices ==
  args.fn # "fs" =>
    /\ DOMAIN args.r = 0 .. (2 * (args.nSnps - 1) - 1)
    /\ \A rd \in rReads :
         /\ rd[1] \in DOMAIN args.r
         /\ rd[2] \in 1 .. (args.nSnps - 1)
         /\ rd[1] = rd[2] - 1 \/ rd[1] = rd[2] - 1 + (args.nSnps - 1)
    /\ \A ind \in Inds : \A j \in 2 .. Len(hist[ind]) :
         /\ << j - 2, j - 1 >> \in rReads
         /\ << j - 2 + (args.nSnps - 1), j - 1 >> \in rReads
    /\ {snp - 1 : snp \in 1 .. (args.nSnps - 1)}
         \cap {snp - 1 + (args.nSnps - 1) : snp \in 1 .. (args.nSnps - 1)} = {}
    /\ pc = "done" =>
         \A i \in DOMAIN args.r : Cardinality({rd \in rReads : rd[1] = i}) = 1

C10_Witness ==
  /\ pc = "done"
  /\ args.fn = "up"
  /\ args.nSnps = 3
  /\ Cardinality(rReads) = 4
  /\ args.r[0] # args.r[2]
====
